---- MODULE Spec2Model ----
(***************************************************************************)
(* A model of the versioned, merklized radix tree of larry0x/tree:         *)
(* Tree::apply / apply_at, Tree::prune, Tree::root, Tree::get / get_at,    *)
(* TreeIterator, and the standalone proof verifier.                        *)
(*                                                                         *)
(* Keys and values are byte strings (sequences of 0..255).  A hash is the  *)
(* preimage the code feeds to BLAKE3, wrapped in a record: the hash        *)
(* function is taken to be collision free, the preimage is built byte by   *)
(* byte as the code builds it.                                             *)
(***************************************************************************)
EXTENDS Integers, Sequences, FiniteSets, TLC

(***************************************************************************)
(* Bounds of the model.                                                    *)
(***************************************************************************)
\* apply is not taken once last_committed_version has reached MaxVersion
MaxVersion == 3
\* largest number of ops in one batch
MaxBatchLen == 2

\* the keys of the model: 0x11, 0x12 and 0x1111 (0x11 is a prefix of 0x1111)
Keys == { <<17>>, <<18>>, <<17, 17>> }
\* the values of the model
Values == { <<1>>, <<2>> }

(***************************************************************************)
(* Option<T>: None is the empty sequence, Some(x) the one-element sequence *)
(***************************************************************************)
None == << >>
Some(x) == << x >>
IsSome(o) == Len(o) = 1
IsNone(o) == Len(o) = 0
Unwrap(o) == o[1]

(***************************************************************************)
(* Bit arithmetic on u8                                                    *)
(***************************************************************************)
RECURSIVE BitOr(_, _)
BitOr(a, b) ==
    IF a = 0 THEN b
    ELSE IF b = 0 THEN a
    ELSE (IF (a % 2 = 1) \/ (b % 2 = 1) THEN 1 ELSE 0) + 2 * BitOr(a \div 2, b \div 2)

\* byte & 0xf0
AndF0(b) == (b \div 16) * 16
\* byte & 0x0f
And0F(b) == b % 16
\* (nibble << 4) as u8
Shl4(b) == (b * 16) % 256
\* byte >> 4
Shr4(b) == b \div 16

(***************************************************************************)
(* Sequences of bytes: the lexicographic order of Vec<u8> / [u8]           *)
(***************************************************************************)
RECURSIVE BytesLess(_, _)
BytesLess(a, b) ==
    IF Len(b) = 0 THEN FALSE
    ELSE IF Len(a) = 0 THEN TRUE
    ELSE IF a[1] < b[1] THEN TRUE
    ELSE IF a[1] > b[1] THEN FALSE
    ELSE BytesLess(Tail(a), Tail(b))

BytesLeq(a, b) == a = b \/ BytesLess(a, b)

(***************************************************************************)
(* NibblePath                                                              *)
(***************************************************************************)
\* NibblePath::empty
EmptyPath == [num_nibbles |-> 0, bytes |-> << >>]

\* impl From<T: AsRef<[u8]>> for NibblePath
PathFrom(key) == [num_nibbles |-> Len(key) * 2, bytes |-> key]

\* NibblePath::push
Push(p, nibble) ==
    IF p.num_nibbles % 2 = 0
    THEN [num_nibbles |-> p.num_nibbles + 1, bytes |-> Append(p.bytes, Shl4(nibble))]
    ELSE [num_nibbles |-> p.num_nibbles + 1,
          bytes |-> [p.bytes EXCEPT ![(p.num_nibbles \div 2) + 1] = BitOr(@, nibble)]]

\* NibblePath::child
PathChild(p, index) == Push(p, index)

\* NibblePath::get_nibble (the caller guarantees i < num_nibbles; i counts from 0)
GetNibble(p, i) ==
    LET b == p.bytes[(i \div 2) + 1]
    IN  IF i % 2 = 1 THEN And0F(b) ELSE And0F(Shr4(b))

\* impl Ord for NibblePath: bytes first, num_nibbles breaks the tie
PathLess(a, b) ==
    IF a.bytes = b.bytes THEN a.num_nibbles < b.num_nibbles
    ELSE BytesLess(a.bytes, b.bytes)

\* NibblePath::pop: the path left and the nibble taken (None on the empty path)
Pop(p) ==
    IF Len(p.bytes) = 0 THEN [path |-> p, popped |-> None]
    ELSE IF p.num_nibbles % 2 = 0
         THEN [path |-> [num_nibbles |-> p.num_nibbles - 1,
                         bytes |-> [p.bytes EXCEPT ![Len(p.bytes)] = AndF0(@)]],
               popped |-> Some(And0F(p.bytes[Len(p.bytes)]))]
    ELSE [path |-> [num_nibbles |-> p.num_nibbles - 1,
                    bytes |-> SubSeq(p.bytes, 1, Len(p.bytes) - 1)],
          popped |-> Some(Shr4(p.bytes[Len(p.bytes)]))]

\* NibblePath::crop (the caller guarantees n < num_nibbles: the code asserts it)
Crop(p, n) ==
    [num_nibbles |-> n,
     bytes |-> IF n % 2 # 0
               THEN Append(SubSeq(p.bytes, 1, n \div 2), AndF0(p.bytes[(n \div 2) + 1]))
               ELSE SubSeq(p.bytes, 1, n \div 2)]

(***************************************************************************)
(* NodeKey                                                                 *)
(***************************************************************************)
\* NodeKey::new
NodeKeyNew(version, nibble_path) == [version |-> version, nibble_path |-> nibble_path]
\* NodeKey::root
NodeKeyRoot(version) == NodeKeyNew(version, EmptyPath)
\* NodeKey::child
NodeKeyChild(nk, version, index) == NodeKeyNew(version, PathChild(nk.nibble_path, index))
\* NodeKey::depth
Depth(nk) == nk.nibble_path.num_nibbles

(***************************************************************************)
(* Hashing.  A preimage is the sequence of what the code feeds the hasher: *)
(* [byte |-> b] for one byte, and a hash value for its 32 bytes.           *)
(***************************************************************************)
Byte(b) == [byte |-> b]
\* Hasher::finalize
Finalize(preimage) == [digest |-> preimage]

RECURSIVE BytesOf(_)
\* Hasher::update with a byte string
BytesOf(bs) == IF Len(bs) = 0 THEN << >> ELSE <<Byte(bs[1])>> \o BytesOf(Tail(bs))

\* hash_child: the index byte, then the 32 bytes of the child's hash
HashChild(preimage, child) == preimage \o <<Byte(child.index), child.hash>>

\* a hash_proof_child that leaves the index byte out
HashProofChild_NoIndex(preimage, child) == preimage \o <<child.hash>>

\* hash_proof_child
HashProofChild(preimage, child) == preimage \o <<Byte(child.index), child.hash>>

\* hash_data: len(key) as u16 big endian, the key, the value (no length prefix)
HashData(preimage, data) ==
    LET len == Len(data.key) % 65536
    IN  preimage \o <<Byte(len \div 256), Byte(len % 256)>>
                 \o BytesOf(data.key) \o BytesOf(data.value)

(***************************************************************************)
(* Children: a Vec<Child> kept sorted by index                             *)
(***************************************************************************)
Child(index, version, hash) == [index |-> index, version |-> version, hash |-> hash]

\* Children::count
ChildrenCount(children) == Len(children)

\* Children::get
ChildrenGet(children, index) ==
    LET hits == {i \in 1..Len(children) : children[i].index = index}
    IN  IF hits = {} THEN None
        ELSE Some(children[CHOOSE i \in hits : \A j \in hits : i <= j])

\* Children::get_only (the caller guarantees count = 1)
ChildrenGetOnly(children) == children[1]

RECURSIVE ChildrenInsertFrom(_, _, _)
ChildrenInsertFrom(children, new_child, pos) ==
    IF pos > Len(children) THEN Append(children, new_child)
    ELSE IF children[pos].index = new_child.index
         THEN [children EXCEPT ![pos] = new_child]
    ELSE IF children[pos].index > new_child.index
         THEN SubSeq(children, 1, pos - 1) \o <<new_child>> \o SubSeq(children, pos, Len(children))
    ELSE ChildrenInsertFrom(children, new_child, pos + 1)

\* Children::insert
ChildrenInsert(children, new_child) == ChildrenInsertFrom(children, new_child, 1)

\* Children::remove: removing an absent child is a no-op
ChildrenRemove(children, index) ==
    LET hits == {i \in 1..Len(children) : children[i].index = index}
    IN  IF hits = {} THEN children
        ELSE LET pos == CHOOSE i \in hits : \A j \in hits : i <= j
             IN  SubSeq(children, 1, pos - 1) \o SubSeq(children, pos + 1, Len(children))

(***************************************************************************)
(* Node { children, data: Option<Record { key, value }> }                  *)
(***************************************************************************)
Record(key, value) == [key |-> key, value |-> value]

\* Node::new
NodeNew == [children |-> << >>, data |-> None]

\* Node::is_empty
NodeIsEmpty(node) == Len(node.children) = 0 /\ IsNone(node.data)

\* Node::is_leaf
NodeIsLeaf(node) == Len(node.children) = 0 /\ IsSome(node.data)

RECURSIVE HashChildren(_, _, _)
HashChildren(preimage, children, pos) ==
    IF pos > Len(children) THEN preimage
    ELSE HashChildren(HashChild(preimage, children[pos]), children, pos + 1)

\* Node::hash
NodeHash(node) ==
    LET withChildren == HashChildren(<< >>, node.children, 1)
    IN  Finalize(IF IsSome(node.data) THEN HashData(withChildren, Unwrap(node.data))
                 ELSE withChildren)

(***************************************************************************)
(* Op and the batch                                                        *)
(***************************************************************************)
OpInsert(value) == [kind |-> "Insert", value |-> value]
OpDelete == [kind |-> "Delete"]
Ops == {OpInsert(v) : v \in Values} \cup {OpDelete}

\* Node::apply_op
NodeApplyOp(node, entry) ==
    IF entry.op.kind = "Insert"
    THEN [node EXCEPT !.data = Some(Record(entry.key, entry.op.value))]
    ELSE [node EXCEPT !.data = None]

RECURSIVE SortedKeys(_)
\* the keys of a BTreeMap, ascending
SortedKeys(keys) ==
    IF keys = {} THEN << >>
    ELSE LET least == CHOOSE k \in keys : \A other \in keys : BytesLeq(k, other)
         IN  <<least>> \o SortedKeys(keys \ {least})

\* the Vec<(NibblePath, K, Op<V>)> that apply makes of the batch
BatchVec(batch) ==
    LET keys == SortedKeys(DOMAIN batch)
    IN  [i \in 1..Len(keys) |->
            [path |-> PathFrom(keys[i]), key |-> keys[i], op |-> batch[keys[i]]]]

\* every non-empty batch of at most MaxBatchLen ops over Keys
Batches ==
    UNION {[ks -> Ops] : ks \in {s \in SUBSET Keys : s # {} /\ Cardinality(s) <= MaxBatchLen}}

(***************************************************************************)
(* NibbleRangeIterator (positions count from 0, as in the code)            *)
(***************************************************************************)
\* a get_nibble that looks at the first nibble of the path
RangeGetNibble_First(batch, nibble_idx, pos) == GetNibble(batch[pos + 1].path, 0)

\* NibbleRangeIterator::get_nibble
RangeGetNibble(batch, nibble_idx, pos) == GetNibble(batch[pos + 1].path, nibble_idx)

RECURSIVE Bisect(_, _, _, _, _)
\* the while loop of NibbleRangeIterator::next
Bisect(batch, nibble_idx, current_nibble, i, j) ==
    IF i < j
    THEN LET mid == j - ((j - i) \div 2)
         IN  IF RangeGetNibble(batch, nibble_idx, mid) > current_nibble
             THEN Bisect(batch, nibble_idx, current_nibble, i, mid - 1)
             ELSE Bisect(batch, nibble_idx, current_nibble, mid, j)
    ELSE i

\* NibbleRangeIterator::next at position pos < len(batch); the new pos is end + 1
NibbleRangeNext(batch, nibble_idx, pos) ==
    LET current_nibble == RangeGetNibble(batch, nibble_idx, pos)
    IN  [nibble |-> current_nibble,
         start  |-> pos,
         end    |-> Bisect(batch, nibble_idx, current_nibble, pos, Len(batch) - 1)]

(***************************************************************************)
(* The store as apply sees it: the nodes map, the orphans set and whether  *)
(* a storage call has failed (the ? operator returns at once).             *)
(***************************************************************************)
Store(nodes_, orphans_) == [nodes |-> nodes_, orphans |-> orphans_]

\* a create_node that writes under the previous version
CreateNode_AtPreviousVersion(st, version, nibble_path, node) ==
    LET node_key == NodeKeyNew(version - 1, nibble_path)
    IN  [st EXCEPT !.nodes =
            [k \in (DOMAIN st.nodes) \cup {node_key} |->
                IF k = node_key THEN node ELSE st.nodes[k]]]

\* Tree::create_node
CreateNode(st, version, nibble_path, node) ==
    LET node_key == NodeKeyNew(version, nibble_path)
    IN  [st EXCEPT !.nodes =
            [k \in (DOMAIN st.nodes) \cup {node_key} |->
                IF k = node_key THEN node ELSE st.nodes[k]]]

\* a mark_node_as_orphaned that keys the entry by the version of the node
MarkNodeAsOrphaned_ByNodeVersion(st, orphaned_since_version, node_key) ==
    [st EXCEPT !.orphans = @ \cup {[since |-> node_key.version, node_key |-> node_key]}]

\* a mark_node_as_orphaned that records nothing
MarkNodeAsOrphaned_Forgotten(st, orphaned_since_version, node_key) == st

\* Tree::mark_node_as_orphaned
MarkNodeAsOrphaned(st, orphaned_since_version, node_key) ==
    [st EXCEPT !.orphans = @ \cup {[since |-> orphaned_since_version, node_key |-> node_key]}]

\* OpResponse, together with the store the call leaves behind.  Failed is the
\* Err the ? operator returns, Panicked an abort of the whole call.
Updated(node, st) == [kind |-> "Updated", node |-> node, st |-> st]
Deleted(st) == [kind |-> "Deleted", st |-> st]
Unchanged(st) == [kind |-> "Unchanged", st |-> st]
Failed(st) == [kind |-> "Failed", st |-> st]
Panicked(st) == [kind |-> "Panicked", st |-> st]

\* the position at which binary_search_by_key finds the nibble path in the
\* sorted batch (Some(pos), counted from 0), or None with the insert position
BatchFind(batch, nibble_path) ==
    LET hits == {i \in 1..Len(batch) : batch[i].path = nibble_path}
    IN  IF hits = {} THEN None ELSE Some((CHOOSE i \in hits : TRUE) - 1)

BatchInsertPos(batch, nibble_path) ==
    Cardinality({i \in 1..Len(batch) : PathLess(batch[i].path, nibble_path)})

\* a WithDangling that forgets the data it took out of the node
WithDangling_Forgotten(batch, dangling_data) == batch

\* the batch with the dangling data inserted, lines 231-241 of tree.rs
WithDangling(batch, dangling_data) ==
    IF IsSome(dangling_data)
    THEN LET rec == Unwrap(dangling_data)
             nibble_path == PathFrom(rec.key)
         IN  IF IsNone(BatchFind(batch, nibble_path))
             THEN LET pos == BatchInsertPos(batch, nibble_path)
                  IN  SubSeq(batch, 1, pos)
                      \o <<[path |-> nibble_path, key |-> rec.key, op |-> OpInsert(rec.value)]>>
                      \o SubSeq(batch, pos + 1, Len(batch))
             ELSE batch
    ELSE batch

(***************************************************************************)
(* Tree::apply_at.  The locals of one call travel in a record:             *)
(*   st, version, current_node_key, batch: as in the code                  *)
(*   node: current_node,  before: current_node_before                      *)
(*   updated: updated_child_nodes,  pos: the nibble range iterator's pos   *)
(***************************************************************************)
RECURSIVE PersistChildren_Misplaced(_, _)
\* a persist that writes each updated child under the next nibble
PersistChildren_Misplaced(d, updated_child_nodes) ==
    IF DOMAIN updated_child_nodes = {} THEN d.st
    ELSE LET nibble == CHOOSE n \in DOMAIN updated_child_nodes : TRUE
         IN  CreateNode(PersistChildren_Misplaced(d,
                            [n \in (DOMAIN updated_child_nodes) \ {nibble} |->
                                updated_child_nodes[n]]),
                        d.version,
                        PathChild(d.current_node_key.nibble_path, (nibble + 1) % 16),
                        updated_child_nodes[nibble])

RECURSIVE PersistChildren(_, _)
\* lines 319-322: write the updated child nodes of the node at current_node_key
PersistChildren(d, updated_child_nodes) ==
    IF DOMAIN updated_child_nodes = {} THEN d.st
    ELSE LET nibble == CHOOSE n \in DOMAIN updated_child_nodes : TRUE
         IN  CreateNode(PersistChildren(d, [n \in (DOMAIN updated_child_nodes) \ {nibble} |->
                                               updated_child_nodes[n]]),
                        d.version, PathChild(d.current_node_key.nibble_path, nibble),
                        updated_child_nodes[nibble])

\* lines 317-328: persist the updated children, compare with the node as loaded
PersistAndCompare(d) ==
    IF d.node # d.before
    THEN Updated(d.node, PersistChildren(d, d.updated))
    ELSE Unchanged(PersistChildren(d, d.updated))

\* an apply_at that never collapses a path
Collapse_Never(d, child) == PersistAndCompare(d)

\* a collapse that looks at the child only when this batch has written it
Collapse_UpdatedOnly(d, child) ==
    IF child.index \in DOMAIN d.updated /\ NodeIsLeaf(d.updated[child.index])
    THEN Updated(d.updated[child.index], d.st)
    ELSE PersistAndCompare(d)

\* lines 301-315: the only child is a leaf, which moves one level up
Collapse(d, child) ==
    IF child.index \in DOMAIN d.updated
    THEN IF NodeIsLeaf(d.updated[child.index])
         THEN Updated(d.updated[child.index], d.st)
         ELSE PersistAndCompare(d)
    ELSE IF NodeKeyChild(d.current_node_key, child.version, child.index) \notin DOMAIN d.st.nodes
         THEN Failed(d.st)   \* Map::load fails
    ELSE IF NodeIsLeaf(d.st.nodes[NodeKeyChild(d.current_node_key, child.version, child.index)])
         THEN Updated(d.st.nodes[NodeKeyChild(d.current_node_key, child.version, child.index)],
                      MarkNodeAsOrphaned(d.st, d.version,
                          NodeKeyChild(d.current_node_key, child.version, child.index)))
    ELSE PersistAndCompare(d)

\* an apply_at that persists a node with one child and no data as it is
Finish_Persists(d) ==
    IF NodeIsEmpty(d.node) THEN Deleted(d.st)
    ELSE PersistAndCompare(d)

\* lines 292-328: delete, collapse, or persist
Finish(d) ==
    IF NodeIsEmpty(d.node) THEN Deleted(d.st)
    ELSE IF IsNone(d.node.data) /\ ChildrenCount(d.node.children) = 1
         THEN Collapse(d, ChildrenGetOnly(d.node.children))
    ELSE PersistAndCompare(d)

\* lines 172-241: load the node, take the dangling data out, apply the op that
\* hits this node, put the dangling data into the batch
Prepare(a) ==
    LET loaded == IF IsSome(a.node) THEN Unwrap(a.node)
                  ELSE IF a.current_node_key \in DOMAIN a.st.nodes
                       THEN a.st.nodes[a.current_node_key]
                       ELSE NodeNew
        is_dangling == /\ IsSome(loaded.data)
                       /\ PathFrom(Unwrap(loaded.data).key) # a.current_node_key.nibble_path
        taken == IF is_dangling THEN [loaded EXCEPT !.data = None] ELSE loaded
        hit == a.batch[1].path = a.current_node_key.nibble_path
    IN  [st |-> a.st, version |-> a.version, current_node_key |-> a.current_node_key,
         node |-> IF hit THEN NodeApplyOp(taken, a.batch[1]) ELSE taken,
         before |-> loaded,
         updated |-> << >>,
         batch |-> WithDangling(IF hit THEN Tail(a.batch) ELSE a.batch,
                                IF is_dangling THEN loaded.data ELSE None),
         pos |-> 0]

RECURSIVE ApplyAt(_)
RECURSIVE Dispatch(_)

\* an apply_at that records the updated child under the hash of an empty node
OnResponse_HashOfEmpty(d, range, child_node_key, res) ==
    CASE res.kind = "Updated" ->
            Dispatch([d EXCEPT
                !.st = IF child_node_key.version < d.version
                       THEN MarkNodeAsOrphaned(res.st, d.version, child_node_key)
                       ELSE res.st,
                !.node.children =
                    ChildrenInsert(@, Child(range.nibble, d.version, NodeHash(NodeNew))),
                !.updated = [n \in (DOMAIN d.updated) \cup {range.nibble} |->
                                IF n = range.nibble THEN res.node ELSE d.updated[n]],
                !.pos = range.end + 1])
      [] res.kind = "Deleted" ->
            Dispatch([d EXCEPT
                !.st = IF child_node_key.version < d.version
                       THEN MarkNodeAsOrphaned(res.st, d.version, child_node_key)
                       ELSE res.st,
                !.node.children = ChildrenRemove(@, range.nibble),
                !.updated = [n \in (DOMAIN d.updated) \ {range.nibble} |-> d.updated[n]],
                !.pos = range.end + 1])
      [] res.kind = "Unchanged" ->
            Dispatch([d EXCEPT
                !.st = res.st,
                !.updated = [n \in (DOMAIN d.updated) \ {range.nibble} |-> d.updated[n]],
                !.pos = range.end + 1])
      [] OTHER -> res

\* lines 268-288: what the response of a child does to the node and the store
OnResponse(d, range, child_node_key, res) ==
    CASE res.kind = "Updated" ->
            Dispatch([d EXCEPT
                !.st = IF child_node_key.version < d.version
                       THEN MarkNodeAsOrphaned(res.st, d.version, child_node_key)
                       ELSE res.st,
                !.node.children =
                    ChildrenInsert(@, Child(range.nibble, d.version, NodeHash(res.node))),
                !.updated = [n \in (DOMAIN d.updated) \cup {range.nibble} |->
                                IF n = range.nibble THEN res.node ELSE d.updated[n]],
                !.pos = range.end + 1])
      [] res.kind = "Deleted" ->
            Dispatch([d EXCEPT
                !.st = IF child_node_key.version < d.version
                       THEN MarkNodeAsOrphaned(res.st, d.version, child_node_key)
                       ELSE res.st,
                !.node.children = ChildrenRemove(@, range.nibble),
                !.updated = [n \in (DOMAIN d.updated) \ {range.nibble} |-> d.updated[n]],
                !.pos = range.end + 1])
      [] res.kind = "Unchanged" ->
            Dispatch([d EXCEPT
                !.st = res.st,
                !.updated = [n \in (DOMAIN d.updated) \ {range.nibble} |-> d.updated[n]],
                !.pos = range.end + 1])
      [] OTHER -> res

\* lines 257-259: the node key of the child the range goes to
ChildNodeKey(d, nibble) ==
    NodeKeyChild(d.current_node_key,
                 IF IsSome(ChildrenGet(d.node.children, nibble))
                 THEN Unwrap(ChildrenGet(d.node.children, nibble)).version
                 ELSE d.version,
                 nibble)

\* lines 256-267: one nibble range of the batch, applied at the child
DispatchChild(d, range) ==
    OnResponse(d, range, ChildNodeKey(d, range.nibble),
               ApplyAt([st |-> d.st, version |-> d.version,
                        current_node_key |-> ChildNodeKey(d, range.nibble),
                        node |-> IF range.nibble \in DOMAIN d.updated
                                 THEN Some(d.updated[range.nibble]) ELSE None,
                        batch |-> SubSeq(d.batch, range.start + 1, range.end + 1)]))

\* the loop over the nibble ranges, lines 255-289, then lines 292-328
Dispatch(d) ==
    IF d.pos = Len(d.batch) THEN Finish(d)
    ELSE DispatchChild(d, NibbleRangeNext(d.batch, Depth(d.current_node_key), d.pos))

\* lines 243-254: the one op left is applied here when the node is empty
ApplyPrepared(d) ==
    IF Len(d.batch) = 1 /\ NodeIsEmpty(d.node)
    THEN Finish([d EXCEPT !.node = NodeApplyOp(d.node, d.batch[1])])
    ELSE Dispatch(d)

\* Tree::apply_at; batch[0] aborts on an empty batch
ApplyAt(a) ==
    IF Len(a.batch) = 0 THEN Panicked(a.st)
    ELSE ApplyPrepared(Prepare(a))

(***************************************************************************)
(* Tree::apply                                                             *)
(***************************************************************************)
\* Item::may_load(..).unwrap_or(0) of the version item
VersionOrZero(version_item) == IF IsSome(version_item) THEN Unwrap(version_item) ELSE 0

\* an apply that does not save the new version when the root node is deleted
Apply_DeletedKeepsVersion(version_item, st, batch) ==
    LET old_version == VersionOrZero(version_item)
        old_root_key == NodeKeyRoot(old_version)
        new_version == old_version + 1
        res == ApplyAt([st |-> st, version |-> new_version, current_node_key |-> old_root_key,
                        node |-> None, batch |-> BatchVec(batch)])
        orphaned == IF old_version > 0
                    THEN MarkNodeAsOrphaned(res.st, new_version, old_root_key)
                    ELSE res.st
    IN  CASE res.kind = "Updated" ->
                [kind |-> "Updated", version |-> Some(new_version),
                 st |-> IF old_version > 0
                        THEN MarkNodeAsOrphaned(
                                 CreateNode(res.st, new_version, EmptyPath, res.node),
                                 new_version, old_root_key)
                        ELSE CreateNode(res.st, new_version, EmptyPath, res.node)]
          [] res.kind = "Deleted" ->
                [kind |-> "Deleted", version |-> version_item, st |-> orphaned]
          [] OTHER ->
                [kind |-> res.kind, version |-> version_item, st |-> res.st]

\* Tree::apply: the outcome of apply_at and the version item and store it leaves
Apply(version_item, st, batch) ==
    LET old_version == VersionOrZero(version_item)
        old_root_key == NodeKeyRoot(old_version)
        new_version == old_version + 1
        res == ApplyAt([st |-> st, version |-> new_version, current_node_key |-> old_root_key,
                        node |-> None, batch |-> BatchVec(batch)])
        orphaned == IF old_version > 0
                    THEN MarkNodeAsOrphaned(res.st, new_version, old_root_key)
                    ELSE res.st
    IN  CASE res.kind = "Updated" ->
                [kind |-> "Updated", version |-> Some(new_version),
                 st |-> IF old_version > 0
                        THEN MarkNodeAsOrphaned(
                                 CreateNode(res.st, new_version, EmptyPath, res.node),
                                 new_version, old_root_key)
                        ELSE CreateNode(res.st, new_version, EmptyPath, res.node)]
          [] res.kind = "Deleted" ->
                [kind |-> "Deleted", version |-> Some(new_version), st |-> orphaned]
          [] OTHER ->
                [kind |-> res.kind, version |-> version_item, st |-> res.st]

(***************************************************************************)
(* Tree::prune                                                             *)
(***************************************************************************)
PRUNE_BATCH_SIZE == 10

\* the order of the orphans' storage keys: since, then the node key's version,
\* num_nibbles and bytes
OrphanLess(a, b) ==
    IF a.since # b.since THEN a.since < b.since
    ELSE IF a.node_key.version # b.node_key.version
         THEN a.node_key.version < b.node_key.version
    ELSE IF a.node_key.nibble_path.num_nibbles # b.node_key.nibble_path.num_nibbles
         THEN a.node_key.nibble_path.num_nibbles < b.node_key.nibble_path.num_nibbles
    ELSE BytesLess(a.node_key.nibble_path.bytes, b.node_key.nibble_path.bytes)

\* a range that leaves the end bound out
PruneBatch_NoBound(orphans_, up_to_version) ==
    IF Cardinality(orphans_) <= PRUNE_BATCH_SIZE THEN orphans_
    ELSE {o \in orphans_ :
            Cardinality({other \in orphans_ : OrphanLess(other, o)}) < PRUNE_BATCH_SIZE}

\* a range whose end bound is exclusive
PruneBatch_Exclusive(orphans_, up_to_version) ==
    LET inRange == {o \in orphans_ : IsNone(up_to_version) \/ o.since < Unwrap(up_to_version)}
    IN  IF Cardinality(inRange) <= PRUNE_BATCH_SIZE THEN inRange
        ELSE {o \in inRange :
                Cardinality({other \in inRange : OrphanLess(other, o)}) < PRUNE_BATCH_SIZE}

\* prefix_range(None, end, Ascending).take(PRUNE_BATCH_SIZE)
PruneBatch(orphans_, up_to_version) ==
    LET inRange == {o \in orphans_ : IsNone(up_to_version) \/ o.since <= Unwrap(up_to_version)}
    IN  IF Cardinality(inRange) <= PRUNE_BATCH_SIZE THEN inRange
        ELSE {o \in inRange :
                Cardinality({other \in inRange : OrphanLess(other, o)}) < PRUNE_BATCH_SIZE}

RECURSIVE Prune_KeepsNodes(_, _)
\* a prune that deletes the orphan entries and leaves the nodes
Prune_KeepsNodes(st, up_to_version) ==
    LET batch == PruneBatch(st.orphans, up_to_version)
        st2 == [nodes |-> st.nodes, orphans |-> st.orphans \ batch]
    IN  IF Cardinality(batch) < PRUNE_BATCH_SIZE THEN st2
        ELSE Prune_KeepsNodes(st2, up_to_version)

RECURSIVE Prune(_, _)
\* Tree::prune: one round of the loop, then the next unless the batch came back short
Prune(st, up_to_version) ==
    LET batch == PruneBatch(st.orphans, up_to_version)
        gone == {o.node_key : o \in batch}
        st2 == [nodes |-> [k \in (DOMAIN st.nodes) \ gone |-> st.nodes[k]],
                orphans |-> st.orphans \ batch]
    IN  IF Cardinality(batch) < PRUNE_BATCH_SIZE THEN st2
        ELSE Prune(st2, up_to_version)

(***************************************************************************)
(* Tree::root                                                              *)
(***************************************************************************)
\* Tree::root_node
RootNode(nodes_, version_) ==
    IF NodeKeyRoot(version_) \in DOMAIN nodes_
    THEN [kind |-> "Ok", node |-> nodes_[NodeKeyRoot(version_)]]
    ELSE [kind |-> "RootNodeNotFound", version |-> version_]

\* Tree::root; version_or_default fails on a store whose version item was never saved
Root(version_item, nodes_, version_arg) ==
    IF IsNone(version_arg) /\ IsNone(version_item) THEN [kind |-> "StdNotFound"]
    ELSE LET version_ == IF IsSome(version_arg) THEN Unwrap(version_arg)
                         ELSE Unwrap(version_item)
             root_node == RootNode(nodes_, version_)
         IN  IF root_node.kind = "Ok"
             THEN [kind |-> "Ok", version |-> version_, root_hash |-> NodeHash(root_node.node)]
             ELSE root_node

(***************************************************************************)
(* Proofs and Tree::get                                                    *)
(***************************************************************************)
ProofChild(index, hash) == [index |-> index, hash |-> hash]

\* impl From<Children> for Vec<ProofChild>
ProofChildren(children) ==
    [i \in 1..Len(children) |-> ProofChild(children[i].index, children[i].hash)]

\* a from_node that leaves the child on the path in the proof node
ProofNodeFromNode_KeepsChild(node, drop_child_at_index, drop_data) ==
    [children |-> ProofChildren(node.children),
     data |-> IF drop_data THEN None ELSE node.data]

\* ProofNode::from_node
ProofNodeFromNode(node, drop_child_at_index, drop_data) ==
    LET kept == IF IsSome(drop_child_at_index)
                THEN ChildrenRemove(node.children, Unwrap(drop_child_at_index))
                ELSE node.children
    IN  [children |-> ProofChildren(kept),
         data |-> IF drop_data THEN None ELSE node.data]

\* a has_child_at_index that never finds the child
HasChildAtIndex_Never(proof_node, index) == FALSE

\* ProofNode::has_child_at_index
HasChildAtIndex(proof_node, index) ==
    \E i \in 1..Len(proof_node.children) : proof_node.children[i].index = index

RECURSIVE FromIter(_, _, _)
\* NibbleIterator::nibble_path: the visited and the remaining nibbles, collected
FromIter(nibble_path, i, acc) ==
    IF i >= nibble_path.num_nibbles THEN acc
    ELSE FromIter(nibble_path, i + 1, Push(acc, GetNibble(nibble_path, i)))

RECURSIVE GetAt(_, _, _, _, _, _)
\* Tree::get_at; pos is the position of the nibble iterator over nibble_path
GetAt(version_item, nodes_, current_node_key, nibble_path, pos, prove) ==
    IF current_node_key \notin DOMAIN nodes_
    THEN IF current_node_key.nibble_path.num_nibbles = 0
         THEN IF IsNone(version_item) THEN [kind |-> "StdNotFound"]
              ELSE IF current_node_key.version = Unwrap(version_item)
                   THEN [kind |-> "Ok", value |-> None, proof |-> << >>]
              ELSE IF current_node_key.version < Unwrap(version_item)
                   THEN [kind |-> "RootNodeNotFound", version |-> current_node_key.version]
              ELSE [kind |-> "VersionNewerThanLatest", latest |-> Unwrap(version_item),
                    querying |-> current_node_key.version]
         ELSE [kind |-> "NonRootNodeNotFound", node_key |-> current_node_key]
    ELSE
    LET current_node == nodes_[current_node_key]
        found == /\ IsSome(current_node.data)
                 /\ PathFrom(Unwrap(current_node.data).key)
                        = FromIter(nibble_path, 0, EmptyPath)
    IN  IF found
        THEN [kind |-> "Ok", value |-> Some(Unwrap(current_node.data).value),
              proof |-> IF prove THEN <<ProofNodeFromNode(current_node, None, TRUE)>>
                        ELSE << >>]
        ELSE IF pos >= nibble_path.num_nibbles
        THEN [kind |-> "Ok", value |-> None,
              proof |-> IF prove THEN <<ProofNodeFromNode(current_node, None, FALSE)>>
                        ELSE << >>]
        ELSE LET index == GetNibble(nibble_path, pos)
                 child == ChildrenGet(current_node.children, index)
             IN  IF IsNone(child)
                 THEN [kind |-> "Ok", value |-> None,
                       proof |-> IF prove
                                 THEN <<ProofNodeFromNode(current_node, None, FALSE)>>
                                 ELSE << >>]
                 ELSE LET sub == GetAt(version_item, nodes_,
                                       NodeKeyChild(current_node_key, Unwrap(child).version,
                                                    index),
                                       nibble_path, pos + 1, prove)
                      IN  IF sub.kind # "Ok" THEN sub
                          ELSE [kind |-> "Ok", value |-> sub.value,
                                proof |-> IF prove
                                          THEN Append(sub.proof,
                                                   ProofNodeFromNode(current_node,
                                                                     Some(index), FALSE))
                                          ELSE sub.proof]

\* Tree::get: the response's proof is Some(proof) when prove, None otherwise
Get(version_item, nodes_, key, prove, version_arg) ==
    IF IsNone(version_arg) /\ IsNone(version_item) THEN [kind |-> "StdNotFound"]
    ELSE LET version_ == IF IsSome(version_arg) THEN Unwrap(version_arg)
                         ELSE Unwrap(version_item)
             res == GetAt(version_item, nodes_, NodeKeyRoot(version_), PathFrom(key), 0, prove)
         IN  IF res.kind # "Ok" THEN res
             ELSE [kind |-> "Ok", key |-> key, value |-> res.value,
                   proof |-> IF prove THEN Some(res.proof) ELSE None]

(***************************************************************************)
(* Tree::iterate and TreeIterator                                          *)
(***************************************************************************)
\* fn iter_with_order
IterWithOrder(items, order) ==
    IF order = "Ascending" THEN items
    ELSE [i \in 1..Len(items) |-> items[Len(items) + 1 - i]]

\* fn skip
Skip(index, start_after, order) ==
    IF IsNone(start_after) THEN FALSE
    ELSE IF order = "Ascending" THEN index <= Unwrap(start_after)
    ELSE index >= Unwrap(start_after)

\* fn nibbles_in_range: "Panicked" when the assertion of crop fails
NibblesInRange(nibble_path, min, max) ==
    IF IsSome(min) /\ ~(nibble_path.num_nibbles < Unwrap(min).num_nibbles) THEN "Panicked"
    ELSE IF /\ IsSome(min)
            /\ BytesLess(nibble_path.bytes, Crop(Unwrap(min), nibble_path.num_nibbles).bytes)
         THEN "No"
    ELSE IF IsSome(max) /\ ~BytesLess(nibble_path.bytes, Unwrap(max).bytes) THEN "No"
    ELSE "Yes"

\* fn key_in_range
KeyInRange(key, min) == ~(IsSome(min) /\ BytesLess(key, Unwrap(min).bytes))

RECURSIVE NextChild(_, _, _)
\* the for loop of iterate_at: the first child that is neither skipped nor out
\* of range; it: the iterator's fields, children: in iteration order from pos on
NextChild(it, children, start_after_index) ==
    IF Len(children) = 0 THEN [kind |-> "None"]
    ELSE IF Skip(children[1].index, start_after_index, it.order)
         THEN NextChild(it, Tail(children), start_after_index)
    ELSE LET in_range == NibblesInRange(PathChild(it.visited_nibbles, children[1].index),
                                        it.min, it.max)
         IN  IF in_range = "Panicked" THEN [kind |-> "Panicked"]
             ELSE IF in_range = "No" THEN NextChild(it, Tail(children), start_after_index)
             ELSE [kind |-> "Child", child |-> children[1]]

RECURSIVE IterateAt(_, _, _)
\* fn iterate_at: the item, if any, and the iterator it leaves
IterateAt(nodes_, it, start_after_index) ==
    IF Len(it.visited_nodes) = 0 THEN [kind |-> "None", it |-> it]
    ELSE LET current_node == it.visited_nodes[Len(it.visited_nodes)]
             found == NextChild(it, IterWithOrder(current_node.children, it.order),
                                start_after_index)
             child_node_key == NodeKeyNew(found.child.version,
                                          PathChild(it.visited_nibbles, found.child.index))
             popped == Pop(it.visited_nibbles)
         IN  CASE found.kind = "Panicked" -> [kind |-> "Panicked", it |-> it]
               [] found.kind = "Child" /\ child_node_key \notin DOMAIN nodes_ ->
                    [kind |-> "StdNotFound", it |-> it]
               [] found.kind = "Child" /\ child_node_key \in DOMAIN nodes_ ->
                    LET child_node == nodes_[child_node_key]
                        pushed == [it EXCEPT
                                     !.visited_nibbles = Push(@, found.child.index),
                                     !.visited_nodes = Append(@, child_node)]
                    IN  IF /\ IsSome(child_node.data)
                           /\ KeyInRange(Unwrap(child_node.data).key, it.min)
                        THEN [kind |-> "Some", item |-> Unwrap(child_node.data), it |-> pushed]
                        ELSE IterateAt(nodes_, pushed, None)
               [] OTHER ->
                    LET left == [it EXCEPT
                                   !.visited_nibbles = popped.path,
                                   !.visited_nodes = SubSeq(@, 1, Len(@) - 1)]
                    IN  IF IsNone(popped.popped) THEN [kind |-> "None", it |-> left]
                        ELSE IterateAt(nodes_, left, popped.popped)

\* TreeIterator::new
TreeIteratorNew(order, min, max, root_node) ==
    [order |-> order,
     min |-> IF IsSome(min) THEN Some(PathFrom(Unwrap(min))) ELSE None,
     max |-> IF IsSome(max) THEN Some(PathFrom(Unwrap(max))) ELSE None,
     visited_nibbles |-> EmptyPath,
     visited_nodes |-> <<root_node>>]

RECURSIVE Collect(_, _, _)
\* TreeIterator::next, called until it returns None, an error, or aborts
Collect(nodes_, it, items) ==
    LET step == IterateAt(nodes_, it, None)
    IN  IF step.kind = "Some" THEN Collect(nodes_, step.it, Append(items, step.item))
        ELSE IF step.kind = "None" THEN [kind |-> "Ok", items |-> items]
        ELSE [kind |-> step.kind, items |-> items]

\* Tree::iterate, and the items the iterator it returns yields
Iterate(version_item, nodes_, order, min, max, version_arg) ==
    IF IsNone(version_arg) /\ IsNone(version_item) THEN [kind |-> "StdNotFound"]
    ELSE LET version_ == IF IsSome(version_arg) THEN Unwrap(version_arg)
                         ELSE Unwrap(version_item)
             root_node == RootNode(nodes_, version_)
         IN  IF root_node.kind # "Ok" THEN root_node
             ELSE Collect(nodes_, TreeIteratorNew(order, min, max, root_node.node), << >>)

(***************************************************************************)
(* The verifier (verify.rs) and ProofNode::hash                            *)
(***************************************************************************)
RECURSIVE ProofNodeHashLoop(_, _, _, _, _)
\* the for loop of ProofNode::hash, lines 86-95 of proof.rs
ProofNodeHashLoop(preimage, children, pos, maybe_child, maybe_child_hashed) ==
    IF pos > Len(children)
    THEN [preimage |-> preimage, maybe_child_hashed |-> maybe_child_hashed]
    ELSE LET child == children[pos]
             first == /\ IsSome(maybe_child)
                      /\ ~maybe_child_hashed
                      /\ Unwrap(maybe_child).index < child.index
             pre2 == IF first THEN HashProofChild(preimage, Unwrap(maybe_child))
                     ELSE preimage
         IN  ProofNodeHashLoop(HashProofChild(pre2, child), children, pos + 1, maybe_child,
                               maybe_child_hashed \/ first)

\* ProofNode::hash
ProofNodeHash(proof_node, maybe_child, maybe_data) ==
    LET loop == ProofNodeHashLoop(<< >>, proof_node.children, 1, maybe_child, FALSE)
        withChildren == IF IsSome(maybe_child) /\ ~loop.maybe_child_hashed
                        THEN HashProofChild(loop.preimage, Unwrap(maybe_child))
                        ELSE loop.preimage
    IN  Finalize(IF IsSome(maybe_data) THEN HashData(withChildren, Unwrap(maybe_data))
                 ELSE IF IsSome(proof_node.data)
                      THEN HashData(withChildren, Unwrap(proof_node.data))
                 ELSE withChildren)

RECURSIVE ComputeRootHash(_, _, _, _)
\* the for loop of compute_and_check_root_hash; i counts from 1 as in the code.
\* get_nibble aborts when its index is not below num_nibbles
ComputeRootHash(proof, nibble_path, hash, i) ==
    IF i >= Len(proof) THEN [kind |-> "Ok", hash |-> hash]
    ELSE IF Len(proof) - i - 1 >= nibble_path.num_nibbles THEN [kind |-> "Panicked"]
    ELSE ComputeRootHash(proof, nibble_path,
                         ProofNodeHash(proof[i + 1],
                                       Some(ProofChild(GetNibble(nibble_path, Len(proof) - i - 1),
                                                       hash)),
                                       None),
                         i + 1)

\* compute_and_check_root_hash
ComputeAndCheckRootHash(root_hash, proof, nibble_path, hash) ==
    LET computed == ComputeRootHash(proof, nibble_path, hash, 1)
    IN  IF computed.kind # "Ok" THEN computed
        ELSE IF computed.hash # root_hash
             THEN [kind |-> "RootHashMismatch", given |-> root_hash, computed |-> computed.hash]
        ELSE [kind |-> "Ok"]

\* verify_membership
VerifyMembership(root_hash, key, value, proof) ==
    IF Len(proof) = 0 THEN [kind |-> "ProofEmpty"]
    ELSE ComputeAndCheckRootHash(root_hash, proof, PathFrom(key),
                                 ProofNodeHash(proof[1], None, Some(Record(key, value))))

\* verify_non_membership
VerifyNonMembership(root_hash, key, proof) ==
    LET proof_len == Len(proof)
        nibble_path == PathFrom(key)
    IN  IF proof_len = 0 THEN [kind |-> "ProofEmpty"]
        ELSE IF proof_len > nibble_path.num_nibbles + 1 THEN [kind |-> "ProofTooLong"]
        ELSE IF /\ proof_len <= nibble_path.num_nibbles
                /\ HasChildAtIndex(proof[1], GetNibble(nibble_path, proof_len - 1))
             THEN [kind |-> "UnexpectedChild"]
        ELSE IF IsSome(proof[1].data) /\ Unwrap(proof[1].data).key = key
             THEN [kind |-> "KeyExists"]
        ELSE ComputeAndCheckRootHash(root_hash, proof, nibble_path,
                                     ProofNodeHash(proof[1], None, None))

(***************************************************************************)
(* The state machine                                                       *)
(***************************************************************************)
VARIABLES
    version,   \* the version item: None until the first save
    nodes,     \* the nodes map: NodeKey -> Node
    orphans,   \* the orphans set: [since, node_key]
    kv,        \* what the batches applied so far leave live: key -> value
    hist,      \* hist[v]: what was live when version v was produced
    changed,   \* the number of batches that changed kv
    probe      \* the input handed to a function on its own, and what it returned

vars == <<version, nodes, orphans, kv, hist, changed, probe>>

\* the key-value pairs a batch leaves live
KvApply(map, batch) ==
    LET deleted == {k \in DOMAIN batch : batch[k].kind = "Delete"}
        inserted == {k \in DOMAIN batch : batch[k].kind = "Insert"}
    IN  [k \in ((DOMAIN map) \cup inserted) \ deleted |->
            IF k \in inserted THEN batch[k].value ELSE map[k]]

LatestVersion == VersionOrZero(version)

Init ==
    /\ version = None
    /\ nodes = << >>
    /\ orphans = {}
    /\ kv = << >>
    /\ hist = << >>
    /\ changed = 0
    /\ probe = None

\* a successful Tree::apply
ApplyBatch(batch) ==
    LET res == Apply(version, Store(nodes, orphans), batch)
        kv2 == KvApply(kv, batch)
    IN  /\ LatestVersion < MaxVersion
        /\ res.kind \in {"Updated", "Deleted", "Unchanged"}
        /\ version' = res.version
        /\ nodes' = res.st.nodes
        /\ orphans' = res.st.orphans
        /\ kv' = kv2
        /\ hist' = IF res.version # version
                   THEN [v \in 1..Unwrap(res.version) |->
                            IF v = Unwrap(res.version) THEN kv2 ELSE hist[v]]
                   ELSE hist
        /\ changed' = IF kv2 # kv THEN changed + 1 ELSE changed
        /\ UNCHANGED probe

\* Tree::prune.  A call with a cutoff that finds no orphan in range returns
\* with the store untouched: it is left as a stuttering step.
PruneUpTo(up_to_version) ==
    LET st == Prune(Store(nodes, orphans), up_to_version)
    IN  /\ IsNone(up_to_version) \/ PruneBatch(orphans, up_to_version) # {}
        /\ nodes' = st.nodes
        /\ orphans' = st.orphans
        /\ UNCHANGED <<version, kv, hist, changed, probe>>

\* the cutoffs prune is called with: none, or a version up to one past the latest
PruneArgs == {None} \cup {Some(v) : v \in 1..(LatestVersion + 1)}

Next ==
    \/ \E batch \in Batches : ApplyBatch(batch)
    \/ \E up_to_version \in PruneArgs : PruneUpTo(up_to_version)

Spec == Init /\ [][Next]_vars

(***************************************************************************)
(* The functions that need no tree, each called once on an input of its    *)
(* own: ProofNode::hash on two nodes, NibbleRangeIterator on a batch       *)
(***************************************************************************)
HASH_LEN == 32

\* the hash values the probed nodes carry: 32 bytes each
HashInputs ==
    {[bytes |-> <<1, 17>> \o [i \in 1..(HASH_LEN - 2) |-> 2]],
     [bytes |-> [i \in 1..HASH_LEN |-> 255]]}

\* the records the probed nodes carry
DataInputs ==
    {Record(key, value) : key \in {<<17>>, <<18>>},
                          value \in {<<1>>, [i \in 1..(HASH_LEN - 2) |-> 2]}}

\* the probed proof nodes: children at the indexes 0 and 1, or fewer, and data or none
NodeInputs ==
    {[children |-> children, data |-> data] :
        children \in {<< >>}
            \cup {<<ProofChild(index, hash)>> : index \in {0, 1}, hash \in HashInputs}
            \cup {<<ProofChild(0, h0), ProofChild(1, h1)>> : h0 \in HashInputs, h1 \in HashInputs},
        data \in {None} \cup {Some(record) : record \in DataInputs}}

RECURSIVE Flat(_)
\* the byte string the hasher has been fed: each byte, and the bytes of each hash
Flat(preimage) ==
    IF Len(preimage) = 0 THEN << >>
    ELSE (IF "byte" \in DOMAIN preimage[1] THEN <<preimage[1].byte>> ELSE preimage[1].bytes)
             \o Flat(Tail(preimage))

\* the paths of the probed batches: of whole bytes, and with a nibble more
PathInputs ==
    {PathFrom(key) : key \in {<<17>>, <<18>>, <<33>>, <<34>>, <<17, 17>>, <<17, 18>>, <<18, 17>>}}
        \cup {PathChild(EmptyPath, 1), PathChild(PathFrom(<<17>>), 1), PathChild(PathFrom(<<18>>), 0)}

\* the most entries a probed batch has
MaxProbeLen == 4

RECURSIVE SortedPaths(_)
\* the paths in ascending order
SortedPaths(paths) ==
    IF paths = {} THEN << >>
    ELSE LET least == CHOOSE p \in paths : \A other \in paths : p = other \/ PathLess(p, other)
         IN  <<[path |-> least]>> \o SortedPaths(paths \ {least})

\* the probed batches: sorted, with a nibble index every entry reaches
BatchInputs ==
    {[batch |-> SortedPaths(paths), nibble_idx |-> nibble_idx] :
        paths \in {ps \in SUBSET PathInputs : ps # {} /\ Cardinality(ps) <= MaxProbeLen},
        nibble_idx \in 0..3}

RECURSIVE Ranges(_, _, _)
\* what NibbleRangeIterator yields from pos on, until next returns None
Ranges(batch, nibble_idx, pos) ==
    IF pos = Len(batch) THEN << >>
    ELSE LET range == NibbleRangeNext(batch, nibble_idx, pos)
         IN  <<range>> \o Ranges(batch, nibble_idx, range.end + 1)

InitProbe ==
    /\ version = None
    /\ nodes = << >>
    /\ orphans = {}
    /\ kv = << >>
    /\ hist = << >>
    /\ changed = 0
    /\ probe \in {[fn |-> "hash", a |-> a, b |-> b, out |-> None] :
                       a \in NodeInputs, b \in NodeInputs}
               \cup {[fn |-> "ranges", batch |-> input.batch, nibble_idx |-> input.nibble_idx,
                      out |-> None] :
                        input \in {i \in BatchInputs :
                                      \A e \in 1..Len(i.batch) :
                                          i.batch[e].path.num_nibbles > i.nibble_idx}}

\* ProofNode::hash of the two nodes: what each call feeds the hasher
HashNodes ==
    /\ probe.fn = "hash" /\ IsNone(probe.out)
    /\ probe' = [probe EXCEPT !.out = Some(<<Flat(ProofNodeHash(probe.a, None, None).digest),
                                             Flat(ProofNodeHash(probe.b, None, None).digest)>>)]
    /\ UNCHANGED <<version, nodes, orphans, kv, hist, changed>>

\* NibbleRangeIterator::new(batch, nibble_idx), collected
NibbleRanges ==
    /\ probe.fn = "ranges" /\ IsNone(probe.out)
    /\ probe' = [probe EXCEPT !.out = Some(Ranges(probe.batch, probe.nibble_idx, 0))]
    /\ UNCHANGED <<version, nodes, orphans, kv, hist, changed>>

NextProbe == HashNodes \/ NibbleRanges

SpecProbe == InitProbe /\ [][NextProbe]_vars

(***************************************************************************)
(* What the properties below speak of                                      *)
(***************************************************************************)
\* the root node of version v is stored
HasRoot(v) == NodeKeyRoot(v) \in DOMAIN nodes

RECURSIVE ReachableFrom(_, _)
\* the keys of the stored nodes one reaches from node_key by following children
ReachableFrom(nodes_, node_key) ==
    IF node_key \notin DOMAIN nodes_ THEN {}
    ELSE {node_key} \cup
         UNION {ReachableFrom(nodes_, NodeKeyChild(node_key, nodes_[node_key].children[i].version,
                                                   nodes_[node_key].children[i].index)) :
                    i \in 1..Len(nodes_[node_key].children)}

\* this step is a prune that deleted something: apply never deletes an orphan entry
IsPruneStep == orphans' # orphans /\ orphans' \subseteq orphans
\* this step is the prune with cutoff up_to_version
IsPruneOf(up_to_version) ==
    /\ IsPruneStep
    /\ Store(nodes', orphans') = Prune(Store(nodes, orphans), up_to_version)
\* this step is an apply that wrote something
IsApplyStep == ~IsPruneStep

\* what was live at version v
LiveAt(v) == hist[v]

\* the bounds the iterator is tried with
IterBounds == {None, Some(<<18>>), Some(<<17, 17>>)}
Orders == {"Ascending", "Descending"}


(***************************************************************************)
(* C1                                                                      *)
(***************************************************************************)
\* C1: once a version has been saved, get(key) at the latest version returns
\* Some(v), v the value of the last Insert of key with no later Delete, and
\* None for every key deleted or never inserted.
C1_GetLatest ==
    IsSome(version) =>
        \A key \in Keys :
            Get(version, nodes, key, FALSE, None) =
                [kind |-> "Ok", key |-> key,
                 value |-> IF key \in DOMAIN kv THEN Some(kv[key]) ELSE None,
                 proof |-> None]

\* a third version in which one key was overwritten, one deleted and one kept
C1_Witness ==
    /\ LatestVersion = 3
    /\ \E k \in DOMAIN kv : k \in DOMAIN LiveAt(1) /\ LiveAt(1)[k] # kv[k]
    /\ \E k \in DOMAIN LiveAt(1) : k \notin DOMAIN kv
    /\ Cardinality(DOMAIN kv) = 2

(***************************************************************************)
(* C2                                                                      *)
(***************************************************************************)
\* C2: for every version V whose root node is stored and every key live at V
\* with value v, get(key, prove, V) returns v and a proof with which
\* verify_membership(root(V).root_hash, key, v, proof) succeeds.
C2_MembershipVerifies ==
    \A v \in 1..LatestVersion :
        HasRoot(v) =>
            \A key \in DOMAIN LiveAt(v) :
                LET res == Get(version, nodes, key, TRUE, Some(v))
                    root == Root(version, nodes, Some(v))
                IN  /\ res.kind = "Ok"
                    /\ root.kind = "Ok"
                    /\ res.value = Some(LiveAt(v)[key])
                    /\ VerifyMembership(root.root_hash, key, LiveAt(v)[key],
                                        Unwrap(res.proof)).kind = "Ok"

\* an earlier version, still stored, with a membership proof three nodes long
C2_Witness ==
    \E v \in 1..(LatestVersion - 1) :
        /\ HasRoot(v)
        /\ \E key \in DOMAIN LiveAt(v) :
              /\ Get(version, nodes, key, TRUE, Some(v)).kind = "Ok"
              /\ Len(Unwrap(Get(version, nodes, key, TRUE, Some(v)).proof)) = 3

(***************************************************************************)
(* C3                                                                      *)
(***************************************************************************)
\* the non-membership proof of key at the latest version verifies
NonMembershipVerifies(key) ==
    LET res == Get(version, nodes, key, TRUE, None)
        root == Root(version, nodes, None)
    IN  /\ res.kind = "Ok"
        /\ res.value = None
        /\ root.kind = "Ok"
        /\ VerifyNonMembership(root.root_hash, key, Unwrap(res.proof)).kind = "Ok"

\* C3 as stated: once a version has been saved, for every key absent from the
\* latest version the proof of get(key, prove) makes verify_non_membership
\* against the latest root hash succeed.  (Stated of the histories in which
\* every batch changed the key-value pairs, so that a violation owes nothing
\* to batches that change nothing.)
C3_NonMembershipVerifies ==
    (IsSome(version) /\ changed = LatestVersion) =>
        \A key \in Keys \ DOMAIN kv : NonMembershipVerifies(key)

\* C3 amended: the same, for a latest version whose tree is not empty (its
\* root node is stored).
C3_NonMembershipVerifiesNonEmpty ==
    (IsSome(version) /\ HasRoot(LatestVersion)) =>
        \A key \in Keys \ DOMAIN kv : NonMembershipVerifies(key)

\* an absent key whose non-membership proof is three nodes long
C3_Witness ==
    /\ IsSome(version) /\ HasRoot(LatestVersion)
    /\ \E key \in Keys \ DOMAIN kv :
          /\ Get(version, nodes, key, TRUE, None).kind = "Ok"
          /\ Len(Unwrap(Get(version, nodes, key, TRUE, None).proof)) = 3

(***************************************************************************)
(* C4                                                                      *)
(***************************************************************************)
\* a hash no node of the model has
TamperHash == Finalize(<<Byte(255)>>)
\* the indexes a tampered child is given
TamperNibbles == {0, 15}

\* the proof nodes that differ from proof_node in one part: the index or the
\* hash of one child, one child more or less, or the data field
TamperedNodes(proof_node) ==
    {[proof_node EXCEPT !.children[j].index = n] :
        j \in 1..Len(proof_node.children),
        n \in {m \in TamperNibbles : \A i \in 1..Len(proof_node.children) :
                                        proof_node.children[i].index # m}}
    \cup {[proof_node EXCEPT !.children[j].hash = TamperHash] :
            j \in 1..Len(proof_node.children)}
    \cup {[proof_node EXCEPT !.children = SubSeq(@, 1, j - 1) \o SubSeq(@, j + 1, Len(@))] :
            j \in 1..Len(proof_node.children)}
    \cup {[proof_node EXCEPT !.children = Append(@, ProofChild(15, TamperHash))]}
    \cup {[proof_node EXCEPT !.data = d] :
            d \in ({None} \cup {Some(Record(k, v)) : k \in Keys, v \in Values})
                 \ {proof_node.data}}

\* the proofs that differ from proof in one part of one node
TamperedProofs(proof) ==
    UNION {{[proof EXCEPT ![i] = t] : t \in TamperedNodes(proof[i])} : i \in 1..Len(proof)}

\* no tampered form of a membership proof that verifies is accepted
MembershipTamperingFails(root_hash, key, value, proof) ==
    VerifyMembership(root_hash, key, value, proof).kind = "Ok" =>
        /\ \A other \in Values \ {value} :
              VerifyMembership(root_hash, key, other, proof).kind # "Ok"
        /\ VerifyMembership(TamperHash, key, value, proof).kind # "Ok"
        /\ \A tampered \in TamperedProofs(proof) :
              VerifyMembership(root_hash, key, value, tampered).kind # "Ok"

\* no tampered form of a non-membership proof that verifies is accepted
NonMembershipTamperingFails(root_hash, key, proof) ==
    VerifyNonMembership(root_hash, key, proof).kind = "Ok" =>
        /\ VerifyNonMembership(TamperHash, key, proof).kind # "Ok"
        /\ \A tampered \in TamperedProofs(proof) :
              VerifyNonMembership(root_hash, key, tampered).kind # "Ok"

\* C4: whenever verify_membership or verify_non_membership succeeds for
\* (root_hash, key, value, proof), it fails once the value, the root hash or
\* one part of one proof node is changed.  The tuples are those get and root
\* return at the latest version.
C4_TamperingFails ==
    \A key \in Keys :
        LET res == Get(version, nodes, key, TRUE, None)
            root == Root(version, nodes, None)
        IN  (IsSome(version) /\ res.kind = "Ok" /\ root.kind = "Ok") =>
                IF IsSome(res.value)
                THEN MembershipTamperingFails(root.root_hash, key, Unwrap(res.value),
                                              Unwrap(res.proof))
                ELSE NonMembershipTamperingFails(root.root_hash, key, Unwrap(res.proof))

(***************************************************************************)
(* C5                                                                      *)
(***************************************************************************)
\* no prune has deleted anything yet: the orphan entry apply makes for the
\* root of each earlier version is still there
NothingPruned ==
    \A w \in 2..LatestVersion :
        [since |-> w, node_key |-> NodeKeyRoot(w - 1)] \in orphans

\* C5: once version V has been produced, a later apply changes neither root(V)
\* nor get(key, prove, V), for every key, as long as nothing has been pruned.
\* (Stated of the histories in which every batch changed the key-value pairs,
\* so that a violation owes nothing to batches that change nothing.)
C5_HistoricalReadsStable ==
    [][(IsApplyStep /\ NothingPruned /\ changed' = LatestVersion') =>
          \A v \in 1..LatestVersion :
              /\ Root(version', nodes', Some(v)) = Root(version, nodes, Some(v))
              /\ \A key \in Keys, prove \in BOOLEAN :
                    Get(version', nodes', key, prove, Some(v))
                        = Get(version, nodes, key, prove, Some(v))]_vars

(***************************************************************************)
(* C6                                                                      *)
(***************************************************************************)
\* C6: every apply leaves last_committed_version unchanged or exactly one
\* higher, and exactly one higher whenever the batch changes the set of live
\* key-value pairs.
C6_VersionStep ==
    [][IsApplyStep =>
          /\ version' = version \/ version' = Some(LatestVersion + 1)
          /\ kv' # kv => version' = Some(LatestVersion + 1)]_vars

\* three versions, each made by a batch that changed the key-value pairs
C6_Witness ==
    /\ LatestVersion = 3
    /\ changed = 3
    /\ LiveAt(1) # LiveAt(2)
    /\ LiveAt(2) # LiveAt(3)

(***************************************************************************)
(* C7                                                                      *)
(***************************************************************************)
\* C7: an apply whose batch leaves the live key-value pairs as they are
\* leaves last_committed_version, the stored nodes and the orphan entries
\* unchanged; hence last_committed_version always equals the number of batches
\* that changed the key-value pairs.
C7_NoOpBatchChangesNothing ==
    /\ [][(IsApplyStep /\ kv' = kv) => UNCHANGED <<version, nodes, orphans>>]_vars
    /\ [](LatestVersion = changed)

(***************************************************************************)
(* C8                                                                      *)
(***************************************************************************)
\* C8: after prune(V), for every version W > V, root(W), get(key, prove, W)
\* and iterate(order, min, max, W) return what they returned before the prune,
\* and no node reachable from the root of W has been deleted.
C8_PrunePreservesLater ==
    [][\A V \in 1..LatestVersion :
          IsPruneOf(Some(V)) =>
              \A W \in (V + 1)..LatestVersion :
                  /\ Root(version', nodes', Some(W)) = Root(version, nodes, Some(W))
                  /\ \A key \in Keys, prove \in BOOLEAN :
                        Get(version', nodes', key, prove, Some(W))
                            = Get(version, nodes, key, prove, Some(W))
                  /\ \A order \in Orders, min \in IterBounds, max \in IterBounds :
                        Iterate(version', nodes', order, min, max, Some(W))
                            = Iterate(version, nodes, order, min, max, Some(W))
                  /\ ReachableFrom(nodes, NodeKeyRoot(W)) \subseteq DOMAIN nodes']_vars

\* version 3 with two keys, after a prune with cutoff 2 that deleted the root
\* node of version 1
C8_Witness ==
    /\ LatestVersion = 3
    /\ \A o \in orphans : o.since = 3
    /\ orphans # {}
    /\ LiveAt(1) # << >> /\ ~HasRoot(1)
    /\ HasRoot(3)
    /\ Cardinality(DOMAIN kv) >= 2

(***************************************************************************)
(* C9                                                                      *)
(***************************************************************************)
\* C9 as stated: after prune(V), root(V') fails with root-not-found for every
\* committed version V' <= V, V included.  (Stated of the histories in which
\* every batch changed the key-value pairs.)
C9_PrunedRootsNotFound ==
    [][\A V \in 1..(LatestVersion + 1) :
          (IsPruneOf(Some(V)) /\ changed = LatestVersion) =>
              \A Vp \in 1..LatestVersion :
                  Vp <= V => Root(version', nodes', Some(Vp)).kind = "RootNodeNotFound"]_vars

\* C9 amended: after prune(V), root(V') fails with root-not-found for every
\* committed version V' < V other than the latest version.
C9_PrunedRootsNotFoundBelow ==
    [][\A V \in 1..(LatestVersion + 1) :
          IsPruneOf(Some(V)) =>
              \A Vp \in 1..LatestVersion :
                  (Vp < V /\ Vp < LatestVersion) =>
                      Root(version', nodes', Some(Vp)) =
                          [kind |-> "RootNodeNotFound", version |-> Vp]]_vars

\* version 3 after a prune with cutoff 2: the root node of version 1 is gone,
\* the root node of version 2 is still stored
C9_Witness ==
    /\ LatestVersion = 3
    /\ orphans # {}
    /\ \A o \in orphans : o.since > 2
    /\ LiveAt(1) # << >> /\ ~HasRoot(1)
    /\ HasRoot(2)

(***************************************************************************)
(* C10                                                                     *)
(***************************************************************************)
\* the store prune leaves when called with no cutoff
PrunedAll == Prune(Store(nodes, orphans), None)

\* C10: after prune with no cutoff no orphan entry is left, the stored nodes
\* are exactly those reachable from the root of the latest version, root() at
\* the latest version returns what it returned before, and root(v) fails with
\* root-not-found for every earlier version v.
C10_PruneAll ==
    IsSome(version) =>
        /\ PrunedAll.orphans = {}
        /\ DOMAIN PrunedAll.nodes
              = ReachableFrom(PrunedAll.nodes, NodeKeyRoot(LatestVersion))
        /\ Root(version, PrunedAll.nodes, None) = Root(version, nodes, None)
        /\ \A v \in 1..(LatestVersion - 1) :
              Root(version, PrunedAll.nodes, Some(v)) =
                  [kind |-> "RootNodeNotFound", version |-> v]

\* version 3 with three keys, right after a prune with no cutoff
C10_Witness ==
    /\ LatestVersion = 3
    /\ orphans = {}
    /\ Cardinality(DOMAIN kv) = 3
    /\ Cardinality(DOMAIN nodes) >= 4
    /\ LiveAt(1) # << >> /\ LiveAt(2) # << >>

(***************************************************************************)
(* C11                                                                     *)
(***************************************************************************)
\* the records of map in ascending byte order of their keys
SortedRecords(map) ==
    LET keys == SortedKeys(DOMAIN map)
    IN  [i \in 1..Len(keys) |-> Record(keys[i], map[keys[i]])]

\* C11: for every version V whose root node is stored, the ascending iteration
\* without bounds yields every pair live at V exactly once, in ascending byte
\* order of the keys, and then ends; a tree that holds a single key included.
C11_IterateAscending ==
    \A v \in 1..LatestVersion :
        HasRoot(v) =>
            Iterate(version, nodes, "Ascending", None, None, Some(v)) =
                [kind |-> "Ok", items |-> SortedRecords(LiveAt(v))]

(***************************************************************************)
(* C12                                                                     *)
(***************************************************************************)
Reverse(items) == [i \in 1..Len(items) |-> items[Len(items) + 1 - i]]

\* both iterations ran to their end
BothEnd(asc, desc) == asc.kind = "Ok" /\ desc.kind = "Ok"

\* C12: for the same version and the same bounds, the descending iteration
\* yields the reverse of what the ascending iteration yields, also when one
\* live key is a byte-prefix of another.  (Stated of the iterations that run to
\* their end, in the histories in which every batch changed the key-value
\* pairs.)
C12_DescendingIsReverse ==
    \A v \in 1..LatestVersion : \A min \in IterBounds : \A max \in IterBounds :
        LET asc == Iterate(version, nodes, "Ascending", min, max, Some(v))
            desc == Iterate(version, nodes, "Descending", min, max, Some(v))
        IN  (HasRoot(v) /\ BothEnd(asc, desc) /\ changed = LatestVersion) =>
                desc.items = Reverse(asc.items)

(***************************************************************************)
(* C13                                                                     *)
(***************************************************************************)
\* the elements of a sequence
Range(items) == {items[i] : i \in 1..Len(items)}

\* key lies in [min, max), an absent bound meaning unbounded
InBounds(key, min, max) ==
    /\ IsNone(min) \/ BytesLeq(Unwrap(min), key)
    /\ IsNone(max) \/ BytesLess(key, Unwrap(max))

\* the records of map whose key lies in [min, max)
RecordsInBounds(map, min, max) ==
    {Record(key, map[key]) : key \in {k \in DOMAIN map : InBounds(k, min, max)}}

\* C13: iterate(order, min, max, V) runs to its end without aborting and yields
\* exactly the pairs live at V whose key k satisfies min <= k < max, for every
\* order and every choice of bounds (hence nothing when min >= max).  (Stated
\* of the versions with two or more live keys, in the histories in which every
\* batch changed the key-value pairs.)
C13_IterateBounds ==
    \A v \in 1..LatestVersion : \A order \in Orders :
        \A min \in IterBounds : \A max \in IterBounds :
            LET res == Iterate(version, nodes, order, min, max, Some(v))
            IN  (/\ HasRoot(v)
                 /\ Cardinality(DOMAIN LiveAt(v)) >= 2
                 /\ changed = LatestVersion) =>
                    /\ res.kind = "Ok"
                    /\ Range(res.items) = RecordsInBounds(LiveAt(v), min, max)

(***************************************************************************)
(* C14                                                                     *)
(***************************************************************************)
\* what get(key, prove, Some(Q)) is said to return when no root node is stored
\* for Q; last_committed_version is the version apply starts from
GetWithoutRoot(key, prove, Q) ==
    IF Q = LatestVersion
    THEN [kind |-> "Ok", key |-> key, value |-> None,
          proof |-> IF prove THEN Some(<< >>) ELSE None]
    ELSE IF Q < LatestVersion THEN [kind |-> "RootNodeNotFound", version |-> Q]
    ELSE [kind |-> "VersionNewerThanLatest", latest |-> LatestVersion, querying |-> Q]

\* C14: when no root node is stored for Q, get(key, prove, Q) returns value
\* None with an empty proof if Q is the last committed version, fails with
\* root-not-found if Q is smaller and with version-too-new if Q is greater.
C14_GetWithoutRoot ==
    \A Q \in 0..(LatestVersion + 1) : \A key \in Keys : \A prove \in BOOLEAN :
        ~HasRoot(Q) => Get(version, nodes, key, prove, Some(Q)) = GetWithoutRoot(key, prove, Q)

(***************************************************************************)
(* C15                                                                     *)
(***************************************************************************)
\* C15: root and iterate, called with a version greater than the last
\* committed version, fail with the version-too-new error.  (Stated of the
\* stores with a saved version, in the histories in which every batch changed
\* the key-value pairs.)
C15_TooNewVersion ==
    (IsSome(version) /\ changed = LatestVersion) =>
        \A Q \in (LatestVersion + 1)..(MaxVersion + 1) :
            /\ Root(version, nodes, Some(Q)).kind = "VersionNewerThanLatest"
            /\ \A order \in Orders :
                  Iterate(version, nodes, order, None, None, Some(Q)).kind
                      = "VersionNewerThanLatest"

(***************************************************************************)
(* C16                                                                     *)
(***************************************************************************)
\* the stored node at node_key has exactly one child and no data
OneChildNoData(node_key) ==
    /\ Len(nodes[node_key].children) = 1
    /\ IsNone(nodes[node_key].data)

\* the node key of the only child of the node at node_key
OnlyChildKey(node_key) ==
    NodeKeyChild(node_key, nodes[node_key].children[1].version,
                 nodes[node_key].children[1].index)

\* C16 as stated: every stored node that has a child has two or more children
\* or has data.  (Stated of the histories in which every batch changed the
\* key-value pairs.)
C16_NoSingleChildNode ==
    changed = LatestVersion =>
        \A node_key \in DOMAIN nodes : ~OneChildNoData(node_key)

\* C16 amended: the only child of a stored node that has exactly one child and
\* no data is never a leaf; it is stored and has children of its own.
C16_NoSingleLeafChild ==
    \A node_key \in DOMAIN nodes :
        OneChildNoData(node_key) =>
            /\ OnlyChildKey(node_key) \in DOMAIN nodes
            /\ ~NodeIsLeaf(nodes[OnlyChildKey(node_key)])

\* two keys were inserted and one of them deleted again, under a root node that
\* has one child and no data
C16_Witness ==
    /\ LatestVersion = 3
    /\ Cardinality(DOMAIN LiveAt(2)) = 3
    /\ Cardinality(DOMAIN LiveAt(3)) = 2
    /\ OneChildNoData(NodeKeyRoot(3))

(***************************************************************************)
(* C17                                                                     *)
(***************************************************************************)
\* this step is an apply that produced a new version
ProducesVersion == IsApplyStep /\ version' # version

\* the nodes the new version no longer reaches from its root
Superseded ==
    ReachableFrom(nodes, NodeKeyRoot(LatestVersion))
        \ ReachableFrom(nodes', NodeKeyRoot(LatestVersion'))

\* the orphan entries of node_key in the set orphans_
EntriesOf(orphans_, node_key) == {o \in orphans_ : o.node_key = node_key}

\* C17: an apply that produces version v leaves, for each node that was
\* reachable from the root of version v-1 and is not reachable from the root of
\* version v, exactly one orphan entry, whose orphaned_since_version is v.
C17_SupersededOrphaned ==
    [][ProducesVersion =>
          \A node_key \in Superseded :
              EntriesOf(orphans', node_key)
                  = {[since |-> LatestVersion', node_key |-> node_key]}]_vars

\* a third version that superseded three or more nodes of the second
C17_Witness ==
    /\ LatestVersion = 3
    /\ HasRoot(2)
    /\ Cardinality({o \in orphans : o.since = 3 /\ o.node_key \in DOMAIN nodes}) >= 3

(***************************************************************************)
(* C18                                                                     *)
(***************************************************************************)
\* the stored leaves: data and no children
Leaves == {node_key \in DOMAIN nodes : NodeIsLeaf(nodes[node_key])}

\* the nibble path of the key a stored node holds
DataPath(node_key) == PathFrom(Unwrap(nodes[node_key].data).key)

\* path p is the beginning of path q
IsPrefixOf(p, q) ==
    /\ p.num_nibbles <= q.num_nibbles
    /\ \A i \in 0..(p.num_nibbles - 1) : GetNibble(p, i) = GetNibble(q, i)

\* C18 as stated: every stored leaf holds a key whose nibble path equals the
\* leaf's own nibble path.  (Stated of the histories in which every batch
\* changed the key-value pairs.)
C18_LeafAtKeyPath ==
    changed = LatestVersion =>
        \A node_key \in Leaves : DataPath(node_key) = node_key.nibble_path

\* C18 amended: every stored leaf holds a key whose nibble path begins with
\* the leaf's own nibble path.
C18_LeafAboveKeyPath ==
    \A node_key \in Leaves : IsPrefixOf(node_key.nibble_path, DataPath(node_key))

\* a version with three keys in which a leaf below the root sits above the
\* depth of its key, next to a leaf that sits at its key's depth
C18_Witness ==
    /\ Cardinality(DOMAIN kv) = 3
    /\ \E a \in Leaves : \E b \in Leaves :
          /\ a.version = LatestVersion /\ b.version = LatestVersion
          /\ a.nibble_path.num_nibbles > 0
          /\ a.nibble_path.num_nibbles < DataPath(a).num_nibbles
          /\ b.nibble_path = DataPath(b)

(***************************************************************************)
(* C19                                                                     *)
(***************************************************************************)
\* the orphan entry the root node of version v gets when version v+1 is produced
RootOrphan(v) == [since |-> v + 1, node_key |-> NodeKeyRoot(v)]

\* version v was committed with a live key, and the orphan entry of its root
\* node, if the root node has one by now, is still there
CommittedAndKept(v) ==
    /\ v \in 1..LatestVersion
    /\ LiveAt(v) # << >>
    /\ v = LatestVersion \/ RootOrphan(v) \in orphans

\* C19: after any sequence of apply and prune calls, for every v the node at
\* (v, empty path) is stored if and only if version v was committed with at
\* least one live key and the orphan entry of that root node has not been
\* pruned.  Every apply that produces a version on top of version v makes that
\* entry, so that the entry is absent only once it has been pruned.
C19_RootStoredIff ==
    /\ [](\A v \in 0..(MaxVersion + 1) : HasRoot(v) <=> CommittedAndKept(v))
    /\ [][(ProducesVersion /\ LatestVersion > 0) =>
              RootOrphan(LatestVersion) \in orphans']_vars

\* three versions: the first with live keys and pruned, the second empty, the
\* third with live keys
C19_Witness ==
    /\ LatestVersion = 3
    /\ LiveAt(1) # << >> /\ ~HasRoot(1)
    /\ LiveAt(2) = << >>
    /\ HasRoot(3)
    /\ RootOrphan(2) \in orphans

(***************************************************************************)
(* C20                                                                     *)
(***************************************************************************)
\* node_key is below the root and no key of the batch leads into it: it is
\* the root of a subtree the batch leaves alone
Untouched(batch, node_key) ==
    /\ node_key.nibble_path.num_nibbles > 0
    /\ \A key \in DOMAIN batch : ~IsPrefixOf(node_key.nibble_path, PathFrom(key))

\* what the apply writes: the new nodes are keyed by the new version, the new
\* orphan entries too, and no node or entry that was there is changed or gone
WritesOnlyNewVersion(st) ==
    /\ \A node_key \in DOMAIN st.nodes :
          IF node_key \in DOMAIN nodes THEN st.nodes[node_key] = nodes[node_key]
          ELSE node_key.version = LatestVersion + 1
    /\ DOMAIN nodes \subseteq DOMAIN st.nodes
    /\ orphans \subseteq st.orphans
    /\ \A o \in st.orphans \ orphans : o.since = LatestVersion + 1

\* the subtree at node_key is as it was: not written again, and reached from
\* the new root (reached: the node keys the new root reaches) under its old key
KeptInPlace(st, reached, node_key) ==
    /\ node_key \in reached
    /\ NodeKeyNew(LatestVersion + 1, node_key.nibble_path) \notin DOMAIN st.nodes

\* the leaf at node_key was moved up by a collapse: written again under the new
\* version at a shorter path, its old node orphaned
MovedUp(st, reached, node_key) ==
    /\ NodeIsLeaf(nodes[node_key])
    /\ [since |-> LatestVersion + 1, node_key |-> node_key] \in st.orphans
    /\ \E n \in 0..(node_key.nibble_path.num_nibbles - 1) :
          LET moved == NodeKeyNew(LatestVersion + 1, Crop(node_key.nibble_path, n))
          IN  moved \in reached /\ st.nodes[moved] = nodes[node_key]

\* C20 as stated: an apply that produces version v writes only nodes and orphan
\* entries keyed by v, changes and deletes no node of an earlier version, and
\* leaves every subtree without a key of the batch unwritten and referenced at
\* its original version.  (Stated of the histories in which every batch changed
\* the key-value pairs.)
C20_CopyOnWrite ==
    (changed = LatestVersion /\ LatestVersion < MaxVersion) =>
        \A before \in {ReachableFrom(nodes, NodeKeyRoot(LatestVersion))} :
        \A batch \in Batches :
        \A res \in {Apply(version, Store(nodes, orphans), batch)} :
            (res.kind \in {"Updated", "Deleted"} /\ KvApply(kv, batch) # kv) =>
                \A reached \in {ReachableFrom(res.st.nodes, NodeKeyRoot(LatestVersion + 1))} :
                    /\ WritesOnlyNewVersion(res.st)
                    /\ \A node_key \in before :
                          Untouched(batch, node_key) =>
                              KeptInPlace(res.st, reached, node_key)

\* C20 amended: as above, except that a leaf without a key of the batch may be
\* moved up by a collapse.  Both are stated of every batch apply can be called
\* with in a state, up to the last version but one.
C20_CopyOnWriteButCollapse ==
    LatestVersion < MaxVersion =>
    \A before \in {ReachableFrom(nodes, NodeKeyRoot(LatestVersion))} :
    \A batch \in Batches :
    \A res \in {Apply(version, Store(nodes, orphans), batch)} :
        res.kind \in {"Updated", "Deleted"} =>
            \A reached \in {ReachableFrom(res.st.nodes, NodeKeyRoot(LatestVersion + 1))} :
                /\ WritesOnlyNewVersion(res.st)
                /\ \A node_key \in before :
                      Untouched(batch, node_key) =>
                          \/ KeptInPlace(res.st, reached, node_key)
                          \/ MovedUp(res.st, reached, node_key)

\* a third version whose root reaches a node of an earlier version, while a
\* leaf of the second version was moved up
C20_Witness ==
    /\ LatestVersion = 3
    /\ \E node_key \in ReachableFrom(nodes, NodeKeyRoot(3)) : node_key.version < 3
    /\ \E o \in orphans :
          /\ o.since = 3 /\ o.node_key \in DOMAIN nodes
          /\ o.node_key.nibble_path.num_nibbles > 0
          /\ NodeIsLeaf(nodes[o.node_key])
          /\ \E moved \in ReachableFrom(nodes, NodeKeyRoot(3)) :
                /\ moved.version = 3
                /\ nodes[moved] = nodes[o.node_key]
                /\ moved.nibble_path.num_nibbles < o.node_key.nibble_path.num_nibbles

(***************************************************************************)
(* C21                                                                     *)
(***************************************************************************)
\* the longest proof handed to the verifier
MaxProofLen == 4

\* the copies of a stored node a proof can carry: whole, without its data, or
\* without one of its children
Copies(node) ==
    {ProofNodeFromNode(node, None, FALSE), ProofNodeFromNode(node, None, TRUE)}
        \cup {ProofNodeFromNode(node, Some(node.children[i].index), FALSE) :
                 i \in 1..Len(node.children)}

\* the copies of the nodes of the latest tree that sit at the given depth
CopiesAtDepth(depth) ==
    UNION {Copies(nodes[node_key]) :
              node_key \in {k \in ReachableFrom(nodes, NodeKeyRoot(LatestVersion)) :
                               k.nibble_path.num_nibbles = depth}}

RECURSIVE Chains(_, _)
\* the proofs of the given length made of such copies, the first one taken at
\* the given depth and each next one a level higher
Chains(depth, length) ==
    IF length = 0 THEN {<< >>}
    ELSE {<<first>> \o rest : first \in CopiesAtDepth(depth),
                              rest \in Chains(depth - 1, length - 1)}

\* every such proof that ends at the root, the empty proof included
ForgedProofs == UNION {Chains(length - 1, length) : length \in 0..MaxProofLen}

\* the rejection the verifier gives is the one the proof calls for
RejectionFits(key, proof, kind) ==
    LET nibble_path == PathFrom(key)
    IN  /\ kind \in {"Ok", "ProofEmpty", "ProofTooLong", "UnexpectedChild", "KeyExists",
                     "RootHashMismatch"}
        /\ kind = "ProofEmpty" <=> Len(proof) = 0
        /\ kind = "ProofTooLong" <=> Len(proof) > nibble_path.num_nibbles + 1
        /\ kind = "UnexpectedChild" =>
              HasChildAtIndex(proof[1], GetNibble(nibble_path, Len(proof) - 1))
        /\ kind = "KeyExists" => Unwrap(proof[1].data).key = key

\* C21: verify_non_membership rejects an empty proof with ProofEmpty, a proof
\* of more than nibble_count(key)+1 nodes with ProofTooLong, a first node with
\* a child at the key's next nibble with UnexpectedChild, a first node holding
\* the key with KeyExists, and otherwise a wrong hash with RootHashMismatch; no
\* proof made of copies of the nodes of the latest tree is accepted for a key
\* that is live there.
C21_NonMembershipRejections ==
    HasRoot(LatestVersion) =>
        \A root_hash \in {Root(version, nodes, None).root_hash} :
        \A proof \in ForgedProofs : \A key \in Keys :
            LET kind == VerifyNonMembership(root_hash, key, proof).kind
            IN  /\ RejectionFits(key, proof, kind)
                /\ key \in DOMAIN kv => kind # "Ok"

\* the latest tree holds the three keys: there are proofs of every rejection
\* and a proof of copies that follows the path of a live key
C21_Witness ==
    /\ Cardinality(DOMAIN kv) = 3
    /\ HasRoot(LatestVersion)
    /\ \A kind \in {"ProofEmpty", "ProofTooLong", "UnexpectedChild", "KeyExists",
                    "RootHashMismatch"} :
          \E proof \in ForgedProofs : \E key \in DOMAIN kv :
              VerifyNonMembership(Root(version, nodes, None).root_hash, key, proof).kind = kind

(***************************************************************************)
(* C22                                                                     *)
(***************************************************************************)
\* the store after the node under node_key has been lost
Without(node_key) ==
    Store([k \in (DOMAIN nodes) \ {node_key} |-> nodes[k]], orphans)

\* the batch has a key whose path runs through the node at node_key
LeadsInto(batch, node_key) ==
    \E key \in DOMAIN batch : IsPrefixOf(node_key.nibble_path, PathFrom(key))

\* C22: when the node under a non-root node key that a stored parent points at
\* is missing and a batch leads into it, apply fails with the corrupt-node
\* error naming the node key and writes nothing.  (Stated of the latest tree of
\* the histories in which every batch changed the key-value pairs.)
C22_MissingNodeIsCorruption ==
    (changed = LatestVersion /\ LatestVersion < MaxVersion) =>
        \A node_key \in ReachableFrom(nodes, NodeKeyRoot(LatestVersion)) :
        \A batch \in Batches :
            (node_key.nibble_path.num_nibbles > 0 /\ LeadsInto(batch, node_key)) =>
                \A res \in {Apply(version, Without(node_key), batch)} :
                    /\ res.kind = "NonRootNodeNotFound"
                    /\ res.st = Without(node_key)
                    /\ res.version = version

(***************************************************************************)
(* C23                                                                     *)
(***************************************************************************)
\* C23: two nodes that differ in their children or in their data never feed
\* the hasher the same byte string.
C23_PreimageUnambiguous ==
    (probe.fn = "hash" /\ IsSome(probe.out) /\ probe.a # probe.b) =>
        Unwrap(probe.out)[1] # Unwrap(probe.out)[2]

(***************************************************************************)
(* C24                                                                     *)
(***************************************************************************)
\* the nodes of the latest tree
LatestTree ==
    IF HasRoot(LatestVersion) THEN ReachableFrom(nodes, NodeKeyRoot(LatestVersion)) ELSE {}

\* C24: after every apply no node reachable from the latest root has no data
\* and exactly one child that is a leaf; a node of the latest tree with no data
\* and one child has that child stored, with children of its own.
C24_LeafChildDissolved ==
    \A node_key \in LatestTree :
        \A child \in {i \in 1..Len(nodes[node_key].children) :
                          Len(nodes[node_key].children) = 1 /\ IsNone(nodes[node_key].data)} :
            \A child_key \in {NodeKeyChild(node_key, nodes[node_key].children[child].version,
                                           nodes[node_key].children[child].index)} :
                /\ child_key \in LatestTree
                /\ Len(nodes[child_key].children) > 0

\* a delete left one key, whose leaf was stored one level up until it became
\* the root node, and the next batch put a second key next to it under a node
\* that is the only child of the root
C24_Witness ==
    /\ LatestVersion = 3
    /\ Cardinality(DOMAIN LiveAt(1)) = 2
    /\ Cardinality(DOMAIN LiveAt(2)) = 1
    /\ NodeKeyRoot(2) \in DOMAIN nodes
    /\ NodeIsLeaf(nodes[NodeKeyRoot(2)])
    /\ Cardinality(DOMAIN LiveAt(3)) = 2
    /\ OneChildNoData(NodeKeyRoot(3))
    /\ ~NodeIsLeaf(nodes[OnlyChildKey(NodeKeyRoot(3))])

(***************************************************************************)
(* C25                                                                     *)
(***************************************************************************)
\* the node the entry names is stored, the root of the version before the
\* entry's reaches it and the root of the entry's version does not
CeasedToBeReachable(o) ==
    /\ o.node_key \in DOMAIN nodes
    /\ o.node_key \in ReachableFrom(nodes, NodeKeyRoot(o.since - 1))
    /\ o.node_key \notin ReachableFrom(nodes, NodeKeyRoot(o.since))

\* the entry names the root node of the version before its own, and that version
\* had no live key, so that its root node was never stored
RootOfEmptyVersion(o) ==
    /\ o.node_key = NodeKeyRoot(o.since - 1)
    /\ o.since - 1 \in 1..LatestVersion
    /\ LiveAt(o.since - 1) = << >>
    /\ o.node_key \notin DOMAIN nodes

\* C25 as stated: every orphan entry (w, node_key) in the store names a stored
\* node that the root of version w-1 reaches and the root of version w does not;
\* no entry names a node that never existed.  (Stated of the histories in which
\* every batch changed the key-value pairs.)
C25_OrphansCeasedToBeReachable ==
    changed = LatestVersion => \A o \in orphans : CeasedToBeReachable(o)

\* what the entries do satisfy: each names a stored node that the root of
\* version w-1 reaches and the root of version w does not, or it is the entry
\* of the root node of a version w-1 that had no live key
C25_OrphansCeasedOrEmptyRoot ==
    \A o \in orphans : CeasedToBeReachable(o) \/ RootOfEmptyVersion(o)

\* there are an entry for a stored node below a root and an entry for the root
\* of an empty version
C25_Witness ==
    /\ \E o \in orphans : CeasedToBeReachable(o) /\ o.node_key.nibble_path.num_nibbles > 0
    /\ \E o \in orphans : RootOfEmptyVersion(o)

(***************************************************************************)
(* C26                                                                     *)
(***************************************************************************)
\* the nibble at nibble_idx of the batch entry at position pos (from 0)
NibbleAt(batch, nibble_idx, pos) == GetNibble(batch[pos + 1].path, nibble_idx)

\* the ranges cover 0..len-1 one after the other, each from start to end
Partitions(ranges, len) ==
    /\ Len(ranges) > 0
    /\ ranges[1].start = 0
    /\ ranges[Len(ranges)].end = len - 1
    /\ \A r \in 1..Len(ranges) : ranges[r].start <= ranges[r].end
    /\ \A r \in 1..(Len(ranges) - 1) : ranges[r + 1].start = ranges[r].end + 1

\* the ranges come in strictly ascending order of their nibbles
AscendingNibbles(ranges) ==
    \A r \in 1..(Len(ranges) - 1) : ranges[r].nibble < ranges[r + 1].nibble

\* each range holds exactly the entries whose nibble at nibble_idx is the range's
GroupsByNibble(ranges, batch, nibble_idx) ==
    \A r \in 1..Len(ranges) : \A pos \in 0..(Len(batch) - 1) :
        (ranges[r].start <= pos /\ pos <= ranges[r].end)
            <=> NibbleAt(batch, nibble_idx, pos) = ranges[r].nibble

\* what the claim says of the ranges the iterator has yielded
RangesAsClaimed ==
    /\ Partitions(Unwrap(probe.out), Len(probe.batch))
    /\ AscendingNibbles(Unwrap(probe.out))
    /\ GroupsByNibble(Unwrap(probe.out), probe.batch, probe.nibble_idx)

\* all entries of the batch have the same first nibble_idx nibbles
SharePrefix(batch, nibble_idx) ==
    \A e, f \in 1..Len(batch) : \A i \in 0..(nibble_idx - 1) :
        GetNibble(batch[e].path, i) = GetNibble(batch[f].path, i)

\* C26 as stated: for a batch sorted ascending by nibble path in which every
\* entry has more than nibble_idx nibbles, the iterator yields consecutive
\* inclusive ranges that partition 0..len-1, in strictly ascending order of
\* nibble, each holding exactly the entries whose nibble at nibble_idx is the
\* range's nibble.
C26_RangesPartition ==
    (probe.fn = "ranges" /\ IsSome(probe.out)) => RangesAsClaimed

\* C26 amended: the same, for a batch whose entries also agree on their first
\* nibble_idx nibbles.
C26_RangesPartitionUnderPrefix ==
    (probe.fn = "ranges" /\ IsSome(probe.out) /\ SharePrefix(probe.batch, probe.nibble_idx))
        => RangesAsClaimed

\* the iterator has split a batch of four entries under a common first nibble
\* into two ranges or more by the second nibble
C26_Witness ==
    /\ probe.fn = "ranges" /\ IsSome(probe.out)
    /\ probe.nibble_idx = 1
    /\ SharePrefix(probe.batch, probe.nibble_idx)
    /\ Len(probe.batch) = MaxProbeLen
    /\ Len(Unwrap(probe.out)) >= 2
    /\ \E r \in 1..Len(Unwrap(probe.out)) : Unwrap(probe.out)[r].start < Unwrap(probe.out)[r].end

(***************************************************************************)
(* C27                                                                     *)
(***************************************************************************)
\* the node key the i-th child entry of the stored node at node_key points at
ChildKeyAt(node_key, i) ==
    NodeKeyChild(node_key, nodes[node_key].children[i].version,
                 nodes[node_key].children[i].index)

\* every child entry of every node the root of version v reaches points at a
\* stored node and carries that node's hash
ChildEntriesSound(v) ==
    \A node_key \in ReachableFrom(nodes, NodeKeyRoot(v)) :
        \A i \in 1..Len(nodes[node_key].children) :
            /\ ChildKeyAt(node_key, i) \in DOMAIN nodes
            /\ nodes[node_key].children[i].hash = NodeHash(nodes[ChildKeyAt(node_key, i)])

\* the errors of a child entry that points at no stored node
CorruptNodeErrors == {"NonRootNodeNotFound", "StdNotFound"}

\* C27: after any sequence of apply and prune calls, for every version whose
\* root node is stored, every child entry of every node reachable from that
\* root points at a stored node and carries the hash of that node, and get and
\* iterate at that version never return the corrupt-node error.
C27_ChildEntriesSound ==
    \A v \in 1..LatestVersion :
        HasRoot(v) =>
            /\ ChildEntriesSound(v)
            /\ \A key \in Keys : \A prove \in BOOLEAN :
                  Get(version, nodes, key, prove, Some(v)).kind \notin CorruptNodeErrors
            /\ \A order \in Orders : \A min \in IterBounds : \A max \in IterBounds :
                  Iterate(version, nodes, order, min, max, Some(v)).kind \notin CorruptNodeErrors

\* a prune has deleted an older version, and a version it left, not the latest,
\* still has its root and nodes below it
C27_Witness ==
    /\ LatestVersion = 3
    /\ ~HasRoot(1) /\ LiveAt(1) # << >>
    /\ HasRoot(2) /\ HasRoot(3)
    /\ \E node_key \in ReachableFrom(nodes, NodeKeyRoot(2)) : node_key.version = 1
    /\ \E node_key \in ReachableFrom(nodes, NodeKeyRoot(2)) : node_key.nibble_path.num_nibbles = 2
    /\ \E o \in orphans : o.since = 3

(***************************************************************************)
(* C28                                                                     *)
(***************************************************************************)
\* the root hash of the tree that one batch of inserts builds in an empty
\* store out of the pairs of live (live is not empty)
RootHashOfOneBatch(live) ==
    LET built == Apply(None, Store(<< >>, {}), [key \in DOMAIN live |-> OpInsert(live[key])])
    IN  Root(built.version, built.st.nodes, None).root_hash

\* C28: the root hash of a version depends only on the key-value pairs live at
\* that version: whatever inserts, overwrites and deletes led there, it is the
\* root hash of the tree built from those pairs by one batch of inserts, so two
\* histories that end with the same live pairs end with the same root hash
\* (the same tree up to the versions of the nodes, which the hash leaves out).
C28_HistoryIndependent ==
    \A v \in 1..LatestVersion :
        HasRoot(v) =>
            /\ LiveAt(v) # << >>
            /\ Root(version, nodes, Some(v)).root_hash = RootHashOfOneBatch(LiveAt(v))

\* two keys are live after an overwrite and a delete, one key a prefix of the
\* other, and they were not reached by one batch
C28_Witness ==
    /\ LatestVersion = 3 /\ HasRoot(3)
    /\ DOMAIN LiveAt(3) = {<<17>>, <<17, 17>>}
    /\ Cardinality(DOMAIN LiveAt(2)) = 3
    /\ \E key \in DOMAIN LiveAt(1) : LiveAt(1)[key] # LiveAt(3)[key]

(***************************************************************************)
(* C29                                                                     *)
(***************************************************************************)
\* C29: apply with an empty batch returns successfully and leaves the version
\* item, the nodes and the orphans as they were; it does not abort.  (Stated of
\* the histories in which every batch changed the key-value pairs.)
C29_EmptyBatchIsNoOp ==
    changed = LatestVersion =>
        \A res \in {Apply(version, Store(nodes, orphans), << >>)} :
            /\ res.kind = "Unchanged"
            /\ res.st = Store(nodes, orphans)
            /\ res.version = version

(***************************************************************************)
(* C30                                                                     *)
(***************************************************************************)
\* C30: verify_membership returns Ok or an error on every proof it is handed,
\* a proof of more than nibble_count(key) + 1 nodes included; it never aborts.
\* (Stated of the proofs made of copies of the latest tree's nodes, in the
\* histories in which every batch changed the key-value pairs.)
C30_MembershipVerifierTotal ==
    (HasRoot(LatestVersion) /\ changed = LatestVersion) =>
        \A root_hash \in {Root(version, nodes, None).root_hash} :
            \A proof \in ForgedProofs : \A key \in Keys : \A value \in Values :
                VerifyMembership(root_hash, key, value, proof).kind # "Panicked"

====
